---- MODULE Spec2Model ----
(***************************************************************************)
(* Model of the secure trade API (trade-api.js, models/User.js).           *)
(*                                                                         *)
(*  - the credential vault: encryptSecret / decryptSecret                  *)
(*    (AES-256-CBC, random IV, "base64(iv):base64(ciphertext)");           *)
(*  - the HTTP facade: checkApiKey and the two route handlers              *)
(*    POST /api/buy and POST /api/sell, one task per request, suspended    *)
(*    at each await (User.findOne, quote GET, swap POST,                   *)
(*    sendRawTransaction, confirmTransaction).                             *)
(*                                                                         *)
(* Text is a sequence of UTF-16 code units, a buffer a sequence of bytes,  *)
(* a base64 string a sequence of sextets (0..63) with Pad for '=' and      *)
(* Colon for ':'.  JavaScript values are tagged records.                   *)
(***************************************************************************)
EXTENDS Integers, Sequences, FiniteSets, TLC

\* ------------------------------------------------------------------------
\* Bounds
\* ------------------------------------------------------------------------
\* Longest plaintext explored by the vault specification, in repeated units.
MaxPlainUnits == 13
\* Number of concurrent HTTP requests.
MaxRequests == 2

\* ------------------------------------------------------------------------
\* JavaScript values
\* ------------------------------------------------------------------------
Undefined == [t |-> "undefined"]
Null == [t |-> "null"]
Str(s) == [t |-> "string", v |-> s]
Buf(b) == [t |-> "buffer", v |-> b]
Arr(a) == [t |-> "array", v |-> a]
\* A number is a decimal fraction v / 10^e, kept exactly.
Dec(n, k) == [t |-> "number", v |-> n, e |-> k]
Num(n) == Dec(n, 0)

\* ToBoolean on the values the model uses.
Truthy(x) ==
  CASE x.t = "undefined" -> FALSE
    [] x.t = "null" -> FALSE
    [] x.t = "number" -> x.v # 0
    [] x.t = "string" -> x.v # ""
    [] OTHER -> TRUE

\* ------------------------------------------------------------------------
\* Credential vault
\* ------------------------------------------------------------------------
\* AES block size and IV length in bytes (crypto.randomBytes(16)).
BlockSize == 16
\* '=' and ':' in an encoded string; 0..63 are the base64 digits.
Pad == 64
Colon == 65
\* U+FFFD, what the UTF-8 codec substitutes for what it cannot represent.
Replacement == 65533

\* encryptionKeyBuffer: 32 bytes, fixed at start-up.
encryptionKeyBuffer == [i \in 1..32 |-> (37 * i + 11) % 256]

RECURSIVE XorBits(_, _, _)
XorBits(a, b, n) ==
  IF n = 0 THEN 0
  ELSE (((a % 2) + (b % 2)) % 2) + 2 * XorBits(a \div 2, b \div 2, n - 1)

XorBlock(a, b) == [i \in 1..BlockSize |-> XorBits(a[i], b[i], 8)]

\* The block cipher under the process key: a keyed permutation of blocks
\* (byte rotation, then key addition) standing for AES-256.
AesEncryptBlock(b) ==
  [i \in 1..BlockSize |->
     (b[(i % BlockSize) + 1] + encryptionKeyBuffer[i] + encryptionKeyBuffer[i + 16]) % 256]

AesDecryptBlock(c) ==
  [j \in 1..BlockSize |->
     LET i == IF j = 1 THEN BlockSize ELSE j - 1
     IN (c[i] + 512 - encryptionKeyBuffer[i] - encryptionKeyBuffer[i + 16]) % 256]

IsHighSurrogate(u) == u >= 55296 /\ u <= 56319
IsLowSurrogate(u) == u >= 56320 /\ u <= 57343

Utf8OfCodePoint(cp) ==
  IF cp < 128 THEN <<cp>>
  ELSE IF cp < 2048 THEN <<192 + (cp \div 64), 128 + (cp % 64)>>
  ELSE IF cp < 65536
    THEN <<224 + (cp \div 4096), 128 + ((cp \div 64) % 64), 128 + (cp % 64)>>
  ELSE <<240 + (cp \div 262144), 128 + ((cp \div 4096) % 64),
         128 + ((cp \div 64) % 64), 128 + (cp % 64)>>

\* Buffer.from(text, 'utf8') from unit i on: surrogate pairs become one
\* 4-byte sequence, an unpaired surrogate becomes U+FFFD.
RECURSIVE Utf8EncodeFrom(_, _)
Utf8EncodeFrom(text, i) ==
  IF i > Len(text) THEN <<>>
  ELSE LET u == text[i] IN
    IF IsHighSurrogate(u) /\ i < Len(text) /\ IsLowSurrogate(text[i + 1])
      THEN Utf8OfCodePoint(65536 + (u - 55296) * 1024 + (text[i + 1] - 56320))
             \o Utf8EncodeFrom(text, i + 2)
    ELSE IF IsHighSurrogate(u) \/ IsLowSurrogate(u)
      THEN Utf8OfCodePoint(Replacement) \o Utf8EncodeFrom(text, i + 1)
    ELSE Utf8OfCodePoint(u) \o Utf8EncodeFrom(text, i + 1)

Utf8Encode(text) == Utf8EncodeFrom(text, 1)

IsCont(b) == b >= 128 /\ b <= 191

UnitsOfCodePoint(cp) ==
  IF cp < 65536 THEN <<cp>>
  ELSE <<55296 + ((cp - 65536) \div 1024), 56320 + ((cp - 65536) % 1024)>>

\* buffer.toString('utf8') from byte i on: malformed input decodes to U+FFFD.
RECURSIVE Utf8DecodeFrom(_, _)
Utf8DecodeFrom(bytes, i) ==
  IF i > Len(bytes) THEN <<>>
  ELSE LET b == bytes[i]
           n == Len(bytes) - i + 1
           c1 == IF n >= 2 THEN bytes[i + 1] ELSE 0
           c2 == IF n >= 3 THEN bytes[i + 2] ELSE 0
           c3 == IF n >= 4 THEN bytes[i + 3] ELSE 0
           cp3 == (b - 224) * 4096 + (c1 - 128) * 64 + (c2 - 128)
           cp4 == (b - 240) * 262144 + (c1 - 128) * 4096 + (c2 - 128) * 64 + (c3 - 128)
       IN
    IF b < 128 THEN <<b>> \o Utf8DecodeFrom(bytes, i + 1)
    ELSE IF b >= 194 /\ b <= 223 /\ IsCont(c1)
      THEN <<(b - 192) * 64 + (c1 - 128)>> \o Utf8DecodeFrom(bytes, i + 2)
    ELSE IF b >= 224 /\ b <= 239 /\ IsCont(c1) /\ IsCont(c2) /\ cp3 >= 2048
            /\ ~IsHighSurrogate(cp3) /\ ~IsLowSurrogate(cp3)
      THEN <<cp3>> \o Utf8DecodeFrom(bytes, i + 3)
    ELSE IF b >= 240 /\ b <= 244 /\ IsCont(c1) /\ IsCont(c2) /\ IsCont(c3)
            /\ cp4 >= 65536 /\ cp4 < 1114112
      THEN UnitsOfCodePoint(cp4) \o Utf8DecodeFrom(bytes, i + 4)
    ELSE <<Replacement>> \o Utf8DecodeFrom(bytes, i + 1)

Utf8Decode(bytes) == Utf8DecodeFrom(bytes, 1)

\* buffer.toString('base64'): output character j comes from 3-byte group
\* (j - 1) \div 4; a group cut short by the end of the buffer is padded.
Base64Encode(bytes) ==
  LET n == Len(bytes) IN
  [j \in 1..(4 * ((n + 2) \div 3)) |->
     LET g == 3 * ((j - 1) \div 4)
         k == (j - 1) % 4
         b1 == bytes[g + 1]
         b2 == IF g + 2 <= n THEN bytes[g + 2] ELSE 0
         b3 == IF g + 3 <= n THEN bytes[g + 3] ELSE 0
     IN CASE k = 0 -> b1 \div 4
          [] k = 1 -> ((b1 % 4) * 16) + (b2 \div 16)
          [] k = 2 -> IF g + 2 > n THEN Pad ELSE ((b2 % 16) * 4) + (b3 \div 64)
          [] k = 3 -> IF g + 3 > n THEN Pad ELSE b3 % 64]

IsBase64Digit(c) == c < 64

\* The digits of an encoded string up to its first '=', other characters
\* skipped: the base64 decoder stops at the first padding character.
Base64Digits(chars) ==
  LET pads == {i \in 1..Len(chars) : chars[i] = Pad}
      stop == IF pads = {} THEN Len(chars) + 1
              ELSE CHOOSE i \in pads : \A j \in pads : i <= j
  IN SelectSeq(SubSeq(chars, 1, stop - 1), IsBase64Digit)

\* Four digits give three bytes; a last group of two or three digits gives
\* one or two bytes.
BytesOfDigits(d) ==
  [i \in 1..((Len(d) * 3) \div 4) |->
     LET g == 4 * ((i - 1) \div 3)
         k == (i - 1) % 3
     IN CASE k = 0 -> (d[g + 1] * 4) + (d[g + 2] \div 16)
          [] k = 1 -> ((d[g + 2] % 16) * 16) + (d[g + 3] \div 4)
          [] k = 2 -> ((d[g + 3] % 4) * 64) + d[g + 4]]

\* Buffer.from(chars, 'base64')
Base64Decode(chars) == BytesOfDigits(Base64Digits(chars))

\* PKCS#7 padding of the last, incomplete block.
Pkcs7Pad(tailBytes) ==
  LET p == BlockSize - Len(tailBytes)
  IN tailBytes \o [i \in 1..p |-> p]

\* CBC chaining over whole blocks; prev is the IV or the previous cipher block.
RECURSIVE CbcEncrypt(_, _)
CbcEncrypt(bytes, prev) ==
  IF Len(bytes) < BlockSize THEN <<>>
  ELSE LET c == AesEncryptBlock(XorBlock(SubSeq(bytes, 1, BlockSize), prev))
       IN c \o CbcEncrypt(SubSeq(bytes, BlockSize + 1, Len(bytes)), c)

RECURSIVE CbcDecrypt(_, _)
CbcDecrypt(bytes, prev) ==
  IF Len(bytes) < BlockSize THEN <<>>
  ELSE LET c == SubSeq(bytes, 1, BlockSize)
       IN XorBlock(AesDecryptBlock(c), prev)
            \o CbcDecrypt(SubSeq(bytes, BlockSize + 1, Len(bytes)), c)

\* cipher.update(plainText, 'utf8', ...): the cipher blocks of every complete
\* input block; the remainder stays in the cipher until final().
CipherUpdate(plainBytes, iv) ==
  CbcEncrypt(SubSeq(plainBytes, 1, Len(plainBytes) - (Len(plainBytes) % BlockSize)), iv)

\* cipher.final(): the padded last block, chained to what update() produced.
CipherFinal(plainBytes, iv, updated) ==
  LET n == Len(plainBytes)
      prev == IF updated = <<>> THEN iv
              ELSE SubSeq(updated, Len(updated) - BlockSize + 1, Len(updated))
  IN CbcEncrypt(Pkcs7Pad(SubSeq(plainBytes, n - (n % BlockSize) + 1, n)), prev)

\* A chunk-by-chunk base64 conversion that forgets to hold back the bytes of
\* an incomplete 3-byte group.
Base64WriteEager(buf) == [out |-> Base64Encode(buf), rest |-> <<>>]

\* The string decoder behind update(..., 'base64'): only whole 3-byte groups
\* are converted, the incomplete group is kept for the next call.
Base64Write(buf) ==
  LET n == Len(buf) IN
  [out |-> Base64Encode(SubSeq(buf, 1, n - (n % 3))),
   rest |-> SubSeq(buf, n - (n % 3) + 1, n)]

\* The string decoder behind final('base64'): the kept bytes, then the chunk.
Base64End(rest, buf) == Base64Encode(rest \o buf)

\* The bytes cipher.update(plainText, 'utf8', ...) encrypts: a string is
\* encoded as UTF-8, a buffer is taken as it is (the encoding is ignored).
InputBytes(plainText) ==
  IF plainText.t = "buffer" THEN plainText.v ELSE Utf8Encode(plainText.v)

\* encryptSecret(plainText), for the IV that crypto.randomBytes(16) drew.
encryptSecret(plainText, iv) ==
  LET plainBytes == InputBytes(plainText)
      updated == CipherUpdate(plainBytes, iv)
      w == Base64Write(updated)
      encrypted == w.out \o Base64End(w.rest, CipherFinal(plainBytes, iv, updated))
  IN Base64Encode(iv) \o <<Colon>> \o encrypted

\* encryptedText.split(':')
RECURSIVE Split(_)
Split(chars) ==
  IF \A i \in 1..Len(chars) : chars[i] # Colon THEN <<chars>>
  ELSE LET k == CHOOSE i \in 1..Len(chars) :
                  chars[i] = Colon /\ \A j \in 1..(i - 1) : chars[j] # Colon
       IN <<SubSeq(chars, 1, k - 1)>> \o Split(SubSeq(chars, k + 1, Len(chars)))

Thrown(msg) == [ok |-> FALSE, error |-> msg]
Returned(val) == [ok |-> TRUE, value |-> val]

\* decipher.final(): checks the length and the padding of the last block.
ValidPadding(plainBytes) ==
  LET n == Len(plainBytes)
      p == plainBytes[n]
  IN /\ p >= 1
     /\ p <= BlockSize
     /\ \A i \in (n - p + 1)..n : plainBytes[i] = p

\* decryptSecret(encryptedText)
decryptSecret(encryptedText) ==
  LET parts == Split(encryptedText) IN
  IF Len(parts) # 2 THEN Thrown("Invalid encrypted text format")
  ELSE LET iv == Base64Decode(parts[1])
           data == Base64Decode(parts[2])
       IN
    IF Len(iv) # BlockSize THEN Thrown("Invalid IV length")
    ELSE IF data = <<>> \/ Len(data) % BlockSize # 0
      THEN Thrown("wrong final block length")
    ELSE LET plainBytes == CbcDecrypt(data, iv) IN
      IF ~ValidPadding(plainBytes) THEN Thrown("bad decrypt")
      ELSE Returned(Utf8Decode(
             SubSeq(plainBytes, 1, Len(plainBytes) - plainBytes[Len(plainBytes)])))

\* ------------------------------------------------------------------------
\* Configuration, user store and the inputs explored
\* ------------------------------------------------------------------------
\* process.env.API_KEY; the process exits at start-up when it is empty.
API_KEY == "k-right"
\* LAMPORTS_PER_SOL of the chain library.
LAMPORTS_PER_SOL == 1000000000

Reqs == 1..MaxRequests

\* Secret-key texts (base58 in the program) and the addresses of their keys.
SecretTextA == <<65, 49>>
SecretTextB == <<66, 50>>
IvA == [i \in 1..BlockSize |-> (29 * i + 3) % 256]

\* Keypair.fromSecretKey(decodeKeypairSecret(text)): the keypair of a secret
\* key, named by its public key; any other text is not a secret key.
KeypairFromSecret(text) ==
  IF text = SecretTextA THEN Returned("PubA")
  ELSE IF text = SecretTextB THEN Returned("PubB")
  ELSE Thrown("bad secret key size")

\* new PublicKey(str): throws unless str is an address.
NewPublicKey(str) ==
  IF str \in {"PubA", "PubB"} THEN Returned(str) ELSE Thrown("Invalid public key input")

Wallet(pub, secretText) ==
  [label |-> "Unnamed Wallet", publicKey |-> pub,
   secretKey |-> encryptSecret(Str(secretText), IvA)]

WalletA == Wallet("PubA", SecretTextA)
WalletB == Wallet("PubB", SecretTextB)
\* A stored pair whose secret belongs to another key.
WalletMismatch == Wallet("PubA", SecretTextB)
\* A stored secret with no ':' in it.
WalletMalformed ==
  [label |-> "Unnamed Wallet", publicKey |-> "PubA", secretKey |-> <<1, 2, 3>>]

UserDoc(id, ws, idx) ==
  [t |-> "object", telegramId |-> id, wallets |-> ws, activeWalletIndex |-> idx]

\* The users collection (UserSchema): telegramId is unique.
InitialStore ==
  [id \in {"u1", "u2", "u3", "u4", "u5", "u6", "u7", "u8"} |->
     CASE id = "u1" -> UserDoc(id, <<WalletA>>, Num(0))
       [] id = "u2" -> UserDoc(id, <<>>, Num(0))
       [] id = "u3" -> UserDoc(id, <<WalletMismatch>>, Num(0))
       [] id = "u4" -> UserDoc(id, <<WalletA, WalletB>>, Num(1))
       [] id = "u5" -> UserDoc(id, <<WalletA>>, Num(1))
       [] id = "u6" -> UserDoc(id, <<WalletA>>, Num(-1))
       [] id = "u7" -> UserDoc(id, <<WalletA>>, Dec(5, 1))
       [] id = "u8" -> UserDoc(id, <<WalletMalformed>>, Num(0))]

FullBody(id, amount) ==
  [telegramId |-> Str(id), tradeAmount |-> amount, slippage |-> Dec(5, 1),
   inputMint |-> Str("SOL"), outputMint |-> Str("USDC")]

Without(body, f, val) == [body EXCEPT ![f] = val]

\* /api/buy is explored on: two tradable bodies (0.1 and -0.0000000015 for
\* u1), one body per other stored user and for an unknown one, and bodies
\* with a missing or falsy field.
BuyBodies ==
  {FullBody("u1", Dec(1, 1)), FullBody("u1", Dec(-15, 10))}
    \cup {FullBody(id, Dec(1, 1)) : id \in {"u2", "u3", "u5", "u6", "u7", "u8", "nobody"}}
    \cup {Without(FullBody("u1", Dec(1, 1)), "telegramId", Undefined),
          Without(FullBody("u1", Dec(1, 1)), "tradeAmount", Num(0)),
          Without(FullBody("u1", Dec(1, 1)), "slippage", Undefined)}

\* /api/sell runs the same code: a tradable body (0.1234567891 for u4) and
\* the two other fields, one empty and one missing.
SellBodies ==
  {FullBody("u4", Dec(1234567891, 10)),
   Without(FullBody("u4", Dec(1, 1)), "inputMint", Str("")),
   Without(FullBody("u4", Dec(1, 1)), "outputMint", Undefined)}

Request(route, key, body) ==
  [t |-> "request", route |-> route, headers |-> [xApiKey |-> key], body |-> body]

\* The requests explored: with the right key, with no key, with an empty
\* key and with a wrong key.
Requests ==
  {Request("buy", Str(API_KEY), b) : b \in BuyBodies}
    \cup {Request("sell", Str(API_KEY), b) : b \in SellBodies}
    \cup {Request("buy", k, FullBody("u1", Dec(1, 1))) :
            k \in {Undefined, Str(""), Str("k-wrong")}}

\* Replies of the aggregator and of the chain network.
QuoteReplies ==
  {[ok |-> FALSE, routes |-> Undefined],
   [ok |-> TRUE, routes |-> Undefined],
   [ok |-> TRUE, routes |-> Arr(<<>>)],
   [ok |-> TRUE, routes |-> Arr(<<"route1", "route2">>)]}

\* A swap transaction is usable when Transaction.from, partialSign and
\* serialize all accept it.
SwapReplies ==
  {[ok |-> FALSE, swapTransaction |-> Undefined],
   [ok |-> TRUE, swapTransaction |-> Undefined],
   [ok |-> TRUE, swapTransaction |-> Str("unusable")],
   [ok |-> TRUE, swapTransaction |-> Str("tx")]}

\* The signature sendRawTransaction returns is the first signature of the
\* transaction it was given: that of its signer.
SignatureOf(tx, signer) == <<"signature", tx, signer>>

\* ------------------------------------------------------------------------
\* State
\* ------------------------------------------------------------------------
VARIABLES
  vpc,        \* vault run: "plain", "encrypted" or "decrypted"
  plain,      \* the plaintext handed to encryptSecret
  cipherText, \* what encryptSecret returned
  decrypted,  \* what decryptSecret returned or threw
  store,      \* the users collection
  pc,         \* per request: the await its handler is suspended at
  req,        \* per request: the HTTP request
  frame,      \* per handler invocation: its local variables
  steps,      \* per request: the pipeline states reached, in order
  calls,      \* per request: the operations performed, in order
  replies,    \* per request: the replies its awaits received, in order
  res         \* per request: the responses sent, in order

vaultVars == <<vpc, plain, cipherText, decrypted>>
tradeVars == <<store, pc, req, frame, steps, calls, replies, res>>
vars == <<vaultVars, tradeVars>>

NoRequest == [t |-> "none"]
EmptyFrame ==
  [userKeypair |-> "", userPublicKey |-> "", amount |-> 0, signature |-> <<>>]

TradeIdle ==
  /\ store = InitialStore
  /\ pc = [r \in Reqs |-> "idle"]
  /\ req = [r \in Reqs |-> NoRequest]
  /\ frame = [r \in Reqs |-> EmptyFrame]
  /\ steps = [r \in Reqs |-> <<>>]
  /\ calls = [r \in Reqs |-> <<>>]
  /\ replies = [r \in Reqs |-> <<>>]
  /\ res = [r \in Reqs |-> <<>>]

VaultIdle ==
  /\ vpc = "plain"
  /\ plain = Str(<<>>)
  /\ cipherText = <<>>
  /\ decrypted = Undefined


\* ------------------------------------------------------------------------
\* The facade: checkApiKey and the route handlers
\* ------------------------------------------------------------------------
Json(status, body) == [status |-> status, body |-> body]
ErrorBody(msg) == [error |-> msg]

\* What a run of handler code up to its next await (or its return) leaves:
\* where the handler stands, its trace, the response sent and its locals.
Outcome(p, st, cl, rs, fr) ==
  [pc |-> p, steps |-> st, calls |-> cl, res |-> rs, frame |-> fr]

\* return res.status(code).json({error: msg})
Finish(st, cl, code, msg, fr) == Outcome("done", st, cl, <<Json(code, ErrorBody(msg))>>, fr)

\* catch (error) { return res.status(500).json({ error: error.message }) }
Caught(st, cl, msg, fr) == Finish(st, cl, 500, msg, fr)

\* A key check that only looks for the header's presence.
checkApiKeyPresence(headers) == Truthy(headers.xApiKey)

\* checkApiKey: TRUE when next() is called, FALSE when 401 is sent.
checkApiKey(headers) ==
  LET providedKey == headers.xApiKey
  IN ~(~Truthy(providedKey) \/ providedKey # Str(API_KEY))

\* A field check that forgets outputMint.
MissingRequiredFieldsButLast(body) ==
  \/ ~Truthy(body.telegramId)
  \/ ~Truthy(body.tradeAmount)
  \/ ~Truthy(body.slippage)
  \/ ~Truthy(body.inputMint)

\* !telegramId || !tradeAmount || !slippage || !inputMint || !outputMint
MissingRequiredFields(body) ==
  \/ ~Truthy(body.telegramId)
  \/ ~Truthy(body.tradeAmount)
  \/ ~Truthy(body.slippage)
  \/ ~Truthy(body.inputMint)
  \/ ~Truthy(body.outputMint)

\* User.findOne({ telegramId }) on a collection: the document or null.
findOne(st, telegramId) ==
  IF telegramId.v \in DOMAIN st THEN st[telegramId.v] ELSE Null

\* A user check that forgets the empty wallet list.
UserUnusableNullOnly(user) == ~Truthy(user)

\* !user || !user.wallets.length
UserUnusable(user) == ~Truthy(user) \/ Len(user.wallets) = 0

RECURSIVE Pow10(_)
Pow10(k) == IF k = 0 THEN 1 ELSE 10 * Pow10(k - 1)

\* An array read that falls back to the first element.
ArrayGetOrFirst(arr, idx) == arr[1]

\* arr[idx]: the element, or undefined when idx is no index of arr.
ArrayGet(arr, idx) ==
  IF idx.v % Pow10(idx.e) = 0
       /\ (idx.v \div Pow10(idx.e)) >= 0
       /\ (idx.v \div Pow10(idx.e)) < Len(arr)
    THEN arr[(idx.v \div Pow10(idx.e)) + 1]
    ELSE Undefined

\* The product x * m of a decimal and an integer multiple of 10^9, as the
\* pair <<n, d>> with x * m = n / d.
Product(x, m) ==
  LET k == IF x.e < 9 THEN x.e ELSE 9
  IN <<x.v * (m \div Pow10(k)), Pow10(x.e - k)>>

\* Math.trunc in place of Math.floor.
AmountTruncated(tradeAmount) ==
  LET q == Product(tradeAmount, LAMPORTS_PER_SOL)
  IN IF q[1] >= 0 THEN q[1] \div q[2] ELSE 0 - ((0 - q[1]) \div q[2])

\* Math.floor(tradeAmount * LAMPORTS_PER_SOL)
Amount(tradeAmount) ==
  LET q == Product(tradeAmount, LAMPORTS_PER_SOL)
  IN q[1] \div q[2]

\* A key comparison that always passes.
KeyMatchesAlways(keypairPub, storedPub) == TRUE

\* userKeypair.publicKey.toString() === publicKey.toString()
KeyMatches(keypairPub, storedPub) == keypairPub = storedPub

\* The route handler from its entry to the await of User.findOne.
HandlerEntry(rq) ==
  IF MissingRequiredFields(rq.body)
    THEN Finish(<<>>, <<>>, 400, "Missing required fields.", EmptyFrame)
    ELSE Outcome("findOne", <<"Validated">>,
                 <<[op |-> "findOne", telegramId |-> rq.body.telegramId]>>,
                 <<>>, EmptyFrame)

\* app.use(checkApiKey), then the route: 401, or the handler's first run.
OnRequest(rq) ==
  IF ~checkApiKey(rq.headers)
    THEN Finish(<<>>, <<>>, 401, "Unauthorized: Invalid API key", EmptyFrame)
    ELSE HandlerEntry(rq)

\* The handler from the result of findOne to the await of the quote GET
\* (the first await inside getJupiterSwapTransaction).
AfterFindOne(rq, user, st, cl) ==
  IF UserUnusable(user)
    THEN Finish(st, cl, 400, "User not found or no wallets available.", EmptyFrame)
  ELSE
  LET st1 == Append(st, "UserLoaded")
      activeWallet == ArrayGet(user.wallets, user.activeWalletIndex)
  IN
  IF activeWallet = Undefined
    THEN Caught(st1, cl, "Cannot read properties of undefined", EmptyFrame)
  ELSE
  LET publicKey == NewPublicKey(activeWallet.publicKey) IN
  IF ~publicKey.ok THEN Caught(st1, cl, publicKey.error, EmptyFrame)
  ELSE
  LET cl1 == Append(cl, [op |-> "decryptSecret", wallet |-> activeWallet.publicKey])
      decryptedSecret == decryptSecret(activeWallet.secretKey)
  IN
  IF ~decryptedSecret.ok THEN Caught(st1, cl1, decryptedSecret.error, EmptyFrame)
  ELSE
  LET userKeypair == KeypairFromSecret(decryptedSecret.value) IN
  IF ~userKeypair.ok THEN Caught(st1, cl1, userKeypair.error, EmptyFrame)
  ELSE
  LET st2 == Append(st1, "WalletDecrypted")
      cl2 == Append(cl1, [op |-> "fromSecretKey", publicKey |-> userKeypair.value,
                          stored |-> publicKey.value])
  IN
  IF ~KeyMatches(userKeypair.value, publicKey.value)
    THEN Finish(st2, cl2, 500, "Wallet decryption error: public key mismatch.",
                EmptyFrame)
  ELSE
  LET amount == Amount(rq.body.tradeAmount)
      fr == [userKeypair |-> userKeypair.value, userPublicKey |-> userKeypair.value,
             amount |-> amount, signature |-> <<>>]
  IN Outcome("quote", st2 \o <<"KeyVerified", "AmountComputed">>,
             Append(cl2, [op |-> "quoteGET", inputMint |-> rq.body.inputMint,
                          outputMint |-> rq.body.outputMint, amount |-> amount,
                          slippage |-> rq.body.slippage]),
             <<>>, fr)

\* A client that asks for the quote again when the quote call fails.
AfterQuoteRetry(fr, reply, st, cl) ==
  IF ~reply.ok THEN Outcome("quote", st, Append(cl, cl[Len(cl)]), <<>>, fr)
  ELSE IF ~Truthy(reply.routes) \/ Len(reply.routes.v) = 0
    THEN Caught(st, cl, "No swap routes found from Jupiter.", fr)
  ELSE Outcome("swap", st,
               Append(cl, [op |-> "swapPOST", route |-> reply.routes.v[1],
                           userPublicKey |-> fr.userPublicKey]),
               <<>>, fr)

\* getJupiterSwapTransaction from the quote response to the swap POST.
AfterQuote(fr, reply, st, cl) ==
  IF ~reply.ok THEN Caught(st, cl, "Jupiter quote API error", fr)
  ELSE IF ~Truthy(reply.routes) \/ Len(reply.routes.v) = 0
    THEN Caught(st, cl, "No swap routes found from Jupiter.", fr)
  ELSE Outcome("swap", st,
               Append(cl, [op |-> "swapPOST", route |-> reply.routes.v[1],
                           userPublicKey |-> fr.userPublicKey]),
               <<>>, fr)

\* From the swap response through signing to the await of the broadcast.
AfterSwap(fr, reply, st, cl) ==
  IF ~reply.ok THEN Caught(st, cl, "Jupiter swap API error", fr)
  ELSE IF ~Truthy(reply.swapTransaction)
    THEN Caught(st, cl, "Failed to obtain swap transaction from Jupiter.", fr)
  ELSE
  LET st1 == Append(st, "TxObtained") IN
  IF reply.swapTransaction.v = "unusable"
    THEN Caught(st1, cl, "Transaction could not be deserialized or signed", fr)
  ELSE Outcome("send", Append(st1, "TxSigned"),
               cl \o <<[op |-> "partialSign", signer |-> fr.userKeypair],
                       [op |-> "sendRawTransaction",
                        tx |-> reply.swapTransaction.v,
                        signedBy |-> fr.userKeypair]>>,
               <<>>, fr)

\* From the broadcast's result to the await of the confirmation.
AfterSend(fr, reply, st, cl) ==
  IF ~reply.ok THEN Caught(st, cl, reply.error, fr)
  ELSE Outcome("confirm", Append(st, "TxBroadcast"),
               Append(cl, [op |-> "confirmTransaction", signature |-> reply.value,
                           commitment |-> "confirmed"]),
               <<>>, [fr EXCEPT !.signature = reply.value])

\* A handler that answers before it looks at the confirmation's result.
AfterConfirmIgnored(fr, reply, st, cl) ==
  Outcome("done", st, cl,
          <<Json(200, [success |-> TRUE, signature |-> fr.signature])>>, fr)

\* From the confirmation's result to the response.
AfterConfirm(fr, reply, st, cl) ==
  IF ~reply.ok THEN Caught(st, cl, reply.error, fr)
  ELSE Outcome("done", Append(st, "Confirmed"), cl,
               <<Json(200, [success |-> TRUE, signature |-> fr.signature])>>, fr)

\* One module-level set of locals used by every invocation.
CellShared(r) == 1

\* The activation record of request r's handler: its own.
Cell(r) == r

\* The request's state after a run of handler code.
Apply(r, o, reply) ==
  /\ pc' = [pc EXCEPT ![r] = o.pc]
  /\ steps' = [steps EXCEPT ![r] = o.steps]
  /\ calls' = [calls EXCEPT ![r] = o.calls]
  /\ res' = [res EXCEPT ![r] = res[r] \o o.res]
  /\ frame' = [frame EXCEPT ![Cell(r)] = o.frame]
  /\ replies' = [replies EXCEPT ![r] = Append(replies[r], reply)]
  /\ UNCHANGED <<store, vaultVars>>

\* A request arrives: middleware, then the handler up to its first await.
Arrive(r) ==
  /\ pc[r] = "idle"
  /\ \E rq \in Requests :
       LET o == OnRequest(rq) IN
       /\ req' = [req EXCEPT ![r] = rq]
       /\ pc' = [pc EXCEPT ![r] = o.pc]
       /\ steps' = [steps EXCEPT ![r] = o.steps]
       /\ calls' = [calls EXCEPT ![r] = o.calls]
       /\ res' = [res EXCEPT ![r] = res[r] \o o.res]
  /\ UNCHANGED <<store, frame, replies, vaultVars>>

\* The store answers User.findOne: the document, null, or a failure.
FindOneReply(r) ==
  /\ pc[r] = "findOne"
  /\ \E ok \in BOOLEAN :
       LET reply == IF ok THEN Returned(findOne(store, req[r].body.telegramId))
                    ELSE Thrown("store unavailable")
           o == IF ok THEN AfterFindOne(req[r], reply.value, steps[r], calls[r])
                ELSE Caught(steps[r], calls[r], reply.error, EmptyFrame)
       IN Apply(r, o, reply)
  /\ UNCHANGED req

\* The aggregator answers the quote GET.
QuoteReply(r) ==
  /\ pc[r] = "quote"
  /\ \E reply \in QuoteReplies :
       Apply(r, AfterQuote(frame[Cell(r)], reply, steps[r], calls[r]), reply)
  /\ UNCHANGED req

\* The aggregator answers the swap POST.
SwapReply(r) ==
  /\ pc[r] = "swap"
  /\ \E reply \in SwapReplies :
       Apply(r, AfterSwap(frame[Cell(r)], reply, steps[r], calls[r]), reply)
  /\ UNCHANGED req

\* The network answers sendRawTransaction: a signature, or a failure.
SendReply(r) ==
  /\ pc[r] = "send"
  /\ \E reply \in {Returned(SignatureOf(calls[r][Len(calls[r])].tx,
                                         calls[r][Len(calls[r])].signedBy)),
                    Thrown("broadcast failed")} :
       Apply(r, AfterSend(frame[Cell(r)], reply, steps[r], calls[r]), reply)
  /\ UNCHANGED req

\* The network answers confirmTransaction.
ConfirmReply(r) ==
  /\ pc[r] = "confirm"
  /\ \E reply \in {Returned("confirmed"), Thrown("confirmation failed")} :
       Apply(r, AfterConfirm(frame[Cell(r)], reply, steps[r], calls[r]), reply)
  /\ UNCHANGED req

Init == VaultIdle /\ TradeIdle

Next ==
  \E r \in Reqs :
    \/ Arrive(r)
    \/ FindOneReply(r)
    \/ QuoteReply(r)
    \/ SwapReply(r)
    \/ SendReply(r)
    \/ ConfirmReply(r)

Spec == Init /\ [][Next]_vars

\* ------------------------------------------------------------------------
\* Properties of the facade
\* ------------------------------------------------------------------------
RequiredFields == {"telegramId", "tradeAmount", "slippage", "inputMint", "outputMint"}
AggregatorOps == {"quoteGET", "swapPOST"}
SigningOps == {"partialSign", "sendRawTransaction", "confirmTransaction"}
PipelineOrder ==
  <<"Validated", "UserLoaded", "WalletDecrypted", "KeyVerified", "AmountComputed",
    "TxObtained", "TxSigned", "TxBroadcast", "Confirmed">>

HasOp(r, o) == \E i \in 1..Len(calls[r]) : calls[r][i].op = o
CountOp(r, o) == Cardinality({i \in 1..Len(calls[r]) : calls[r][i].op = o})
HasStep(r, s) == \E i \in 1..Len(steps[r]) : steps[r][i] = s
Arrived(r) == pc[r] # "idle"
RightKey(r) == req[r].headers.xApiKey = Str(API_KEY)
FullyPopulated(r) == \A f \in RequiredFields : Truthy(req[r].body[f])
Status(r) == res[r][1].status
IsErrorResponse(r) == DOMAIN res[r][1].body = {"error"}
\* The store answered this request's lookup (it did not fail).
LookedUp(r) == Len(replies[r]) >= 1 /\ replies[r][1].ok
Known(r) == req[r].body.telegramId.v \in DOMAIN store
UserOf(r) == store[req[r].body.telegramId.v]
IndexInRange(u) ==
  /\ u.activeWalletIndex.v % Pow10(u.activeWalletIndex.e) = 0
  /\ (u.activeWalletIndex.v \div Pow10(u.activeWalletIndex.e)) \in 0..(Len(u.wallets) - 1)
ActiveWalletOf(u) ==
  u.wallets[(u.activeWalletIndex.v \div Pow10(u.activeWalletIndex.e)) + 1]

C2_MissingFields ==
  \A r \in Reqs :
    (Arrived(r) /\ RightKey(r) /\ ~FullyPopulated(r)) =>
      /\ pc[r] = "done"
      /\ Len(res[r]) = 1
      /\ Status(r) = 400
      /\ calls[r] = <<>>
      /\ replies[r] = <<>>

\* An authenticated request without outputMint, and one with tradeAmount 0.
C2_Witness ==
  /\ \E r \in Reqs :
       /\ Arrived(r) /\ RightKey(r) /\ pc[r] = "done"
       /\ req[r].body.outputMint = Undefined
  /\ \E r \in Reqs :
       /\ Arrived(r) /\ RightKey(r) /\ pc[r] = "done"
       /\ req[r].body.tradeAmount = Num(0)

\* C3: an authenticated, fully populated request whose telegramId matches no
\* stored user, or a user with no wallets, is answered 400 and no
\* decryption, aggregator call, signing or broadcast is made for it.
C3_NoUser ==
  \A r \in Reqs :
    (/\ Arrived(r) /\ RightKey(r) /\ FullyPopulated(r) /\ LookedUp(r)
     /\ (~Known(r) \/ UserOf(r).wallets = <<>>)) =>
      /\ pc[r] = "done"
      /\ Len(res[r]) = 1
      /\ Status(r) = 400
      /\ \A i \in 1..Len(calls[r]) : calls[r][i].op = "findOne"

\* Both cases answered: an unknown telegramId and a user without wallets.
C3_Witness ==
  /\ \E r \in Reqs :
       Arrived(r) /\ RightKey(r) /\ FullyPopulated(r) /\ LookedUp(r) /\ ~Known(r)
  /\ \E r \in Reqs :
       /\ Arrived(r) /\ RightKey(r) /\ FullyPopulated(r) /\ LookedUp(r)
       /\ Known(r) /\ UserOf(r).wallets = <<>>

\* C4: when the reconstructed keypair's public key differs from the active
\* wallet's stored public key the request is answered 500 and never calls
\* the aggregator, signs or broadcasts; every broadcast is preceded, in its
\* request, by a key check that passed.
C4_KeyCheck ==
  \A r \in Reqs :
    /\ \A i \in 1..Len(calls[r]) :
         (/\ calls[r][i].op = "fromSecretKey"
          /\ Known(r) /\ IndexInRange(UserOf(r))
          /\ calls[r][i].publicKey # ActiveWalletOf(UserOf(r)).publicKey) =>
           /\ pc[r] = "done"
           /\ Len(res[r]) = 1
           /\ Status(r) = 500
           /\ \A o \in AggregatorOps \cup SigningOps : ~HasOp(r, o)
    /\ \A i \in 1..Len(calls[r]) :
         calls[r][i].op = "sendRawTransaction" =>
           /\ \E j \in 1..(i - 1) :
                /\ calls[r][j].op = "fromSecretKey"
                /\ Known(r) /\ IndexInRange(UserOf(r))
                /\ calls[r][j].publicKey = ActiveWalletOf(UserOf(r)).publicKey
           /\ HasStep(r, "KeyVerified")

\* A stored pair that does not match was decrypted and rejected, and a
\* matching one went on to the broadcast.
C4_Witness ==
  /\ \E r \in Reqs :
       /\ HasOp(r, "fromSecretKey")
       /\ ~HasStep(r, "KeyVerified")
       /\ pc[r] = "done"
  /\ \E r \in Reqs : HasOp(r, "sendRawTransaction")

\* C5: every request goes through Validated, UserLoaded, WalletDecrypted,
\* KeyVerified, AmountComputed, TxObtained, TxSigned, TxBroadcast, Confirmed
\* in this order with no step skipped; {success: true, signature} is sent
\* only after the broadcast returned that signature and the wait at the
\* 'confirmed' level completed without error.
C5_StepOrder ==
  \A r \in Reqs :
    /\ Len(steps[r]) <= Len(PipelineOrder)
    /\ steps[r] = SubSeq(PipelineOrder, 1, Len(steps[r]))
    /\ (Len(res[r]) >= 1 /\ ~IsErrorResponse(r)) =>
         /\ steps[r] = PipelineOrder
         /\ Len(replies[r]) = 5
         /\ replies[r][4].ok
         /\ replies[r][5].ok
         /\ res[r] = <<Json(200, [success |-> TRUE, signature |-> replies[r][4].value])>>
         /\ calls[r][Len(calls[r])] =
              [op |-> "confirmTransaction", signature |-> replies[r][4].value,
               commitment |-> "confirmed"]
         /\ calls[r][Len(calls[r]) - 1].op = "sendRawTransaction"

\* Two requests succeeded with different signatures.
C5_Witness ==
  \E r1, r2 \in Reqs :
    /\ Len(res[r1]) = 1 /\ Status(r1) = 200
    /\ Len(res[r2]) = 1 /\ Status(r2) = 200
    /\ res[r1][1].body.signature # res[r2][1].body.signature

\* The operations of a request, each at most once and in this order.
CallOrder ==
  <<"findOne", "decryptSecret", "fromSecretKey", "quoteGET", "swapPOST",
    "partialSign", "sendRawTransaction", "confirmTransaction">>

C6_State ==
  \A r \in Reqs :
    /\ Len(res[r]) <= 1
    /\ (pc[r] = "done") = (Len(res[r]) = 1)
    /\ Len(calls[r]) <= Len(CallOrder)
    /\ \A i \in 1..Len(calls[r]) : calls[r][i].op = CallOrder[i]
    /\ (pc[r] = "done" /\ RightKey(r) /\ steps[r] # PipelineOrder) =>
         IsErrorResponse(r) /\ Status(r) \in {400, 500}
    /\ \A i \in 1..Len(replies[r]) :
         ~replies[r][i].ok =>
           /\ i = Len(replies[r])
           /\ pc[r] = "done"
           /\ IsErrorResponse(r)
           /\ Status(r) = 500

C6_Step ==
  \A r \in Reqs :
    pc[r] = "done" =>
      /\ pc'[r] = "done"
      /\ res'[r] = res[r]
      /\ calls'[r] = calls[r]
      /\ steps'[r] = steps[r]
      /\ replies'[r] = replies[r]

\* C6: a failure at any step is terminal: no later step of the request
\* runs, no external call is made more than once per request, and the
\* request ends with exactly one error response, status 400 or 500, never a
\* success.
C6_FailureTerminal == []C6_State /\ [][C6_Step]_vars

\* At once: a request that failed at the quote, one at the swap.
C6_Witness ==
  \E r1, r2 \in Reqs :
    /\ pc[r1] = "done" /\ Len(replies[r1]) = 2 /\ ~replies[r1][2].ok
    /\ CountOp(r1, "quoteGET") = 1
    /\ pc[r2] = "done" /\ Len(replies[r2]) = 3 /\ ~replies[r2][3].ok
    /\ CountOp(r2, "swapPOST") = 1

\* x * 10^9 rounded toward zero, for a decimal x.
TowardZero(x) ==
  LET q == Product(x, LAMPORTS_PER_SOL)
  IN IF q[1] >= 0 THEN q[1] \div q[2] ELSE 0 - ((0 - q[1]) \div q[2])

\* n is the largest integer not above x * 10^9.
IsFloorOf(n, x) ==
  LET q == Product(x, LAMPORTS_PER_SOL)
  IN n * q[2] <= q[1] /\ q[1] < (n * q[2]) + q[2]

C9_State ==
  \A r \in Reqs :
    \A i \in 1..Len(calls[r]) :
      LET c == calls[r][i] IN
      /\ c.op = "findOne" => c.telegramId = req[r].body.telegramId
      /\ c.op = "quoteGET" =>
           /\ c.inputMint = req[r].body.inputMint
           /\ c.outputMint = req[r].body.outputMint
           /\ c.slippage = req[r].body.slippage
           /\ IsFloorOf(c.amount, req[r].body.tradeAmount)
      /\ c.op = "swapPOST" =>
           /\ c.userPublicKey = ActiveWalletOf(UserOf(r)).publicKey
           /\ c.route = replies[r][2].routes.v[1]
      /\ c.op = "partialSign" => c.signer = ActiveWalletOf(UserOf(r)).publicKey
      /\ c.op = "sendRawTransaction" =>
           /\ c.signedBy = ActiveWalletOf(UserOf(r)).publicKey
           /\ c.tx = replies[r][3].swapTransaction.v
      /\ c.op = "confirmTransaction" => c.signature = replies[r][4].value

Touched(r) ==
  \/ pc'[r] # pc[r]
  \/ req'[r] # req[r]
  \/ calls'[r] # calls[r]
  \/ steps'[r] # steps[r]
  \/ replies'[r] # replies[r]
  \/ res'[r] # res[r]

C9_Step ==
  /\ store' = store
  /\ \A r1, r2 \in Reqs : (r1 < r2 /\ Touched(r1)) => ~Touched(r2)
  /\ \A r \in Reqs : frame'[r] # frame[r] => Touched(r)

\* C9: under any interleaving of concurrent requests, the calls a request
\* makes and its response depend only on its own inputs and the replies to
\* its own calls; a step of one request changes nothing of another, and the
\* user store is never written.
C9_Isolation == []C9_State /\ [][C9_Step]_vars

\* Two requests for different users are past their key check at once.
C9_Witness ==
  \E r1, r2 \in Reqs :
    /\ r1 # r2
    /\ HasOp(r1, "swapPOST") /\ HasOp(r2, "partialSign")
    /\ req[r1].body.telegramId # req[r2].body.telegramId
    /\ pc[r1] # "done" /\ pc[r2] # "done"

\* The keypair each stored secret decrypts to.
KeyOfStoredSecret ==
  [sk \in UNION {{InitialStore[id].wallets[i].secretKey :
                    i \in 1..Len(InitialStore[id].wallets)} : id \in DOMAIN InitialStore}
     |-> LET d == decryptSecret(sk)
         IN IF d.ok THEN KeypairFromSecret(d.value) ELSE d]

\* C10: with a non-empty wallet list and an activeWalletIndex that is no
\* index of it, the request ends with 500 and makes no aggregator call,
\* signs nothing and broadcasts nothing; in a request that reaches the
\* aggregator, the payer key and the signing key are those of the wallet at
\* activeWalletIndex.
C10_ActiveWallet ==
  \A r \in Reqs :
    /\ (/\ Arrived(r) /\ RightKey(r) /\ FullyPopulated(r) /\ LookedUp(r)
        /\ Known(r) /\ UserOf(r).wallets # <<>> /\ ~IndexInRange(UserOf(r))) =>
         /\ pc[r] = "done"
         /\ Len(res[r]) = 1
         /\ Status(r) = 500
         /\ \A o \in AggregatorOps \cup SigningOps : ~HasOp(r, o)
    /\ HasOp(r, "quoteGET") =>
         /\ Known(r) /\ IndexInRange(UserOf(r))
         /\ \A i \in 1..Len(calls[r]) :
              LET c == calls[r][i]
                  w == ActiveWalletOf(UserOf(r))
              IN /\ c.op = "decryptSecret" => c.wallet = w.publicKey
                 /\ c.op = "swapPOST" => c.userPublicKey = w.publicKey
                 /\ c.op = "partialSign" =>
                      /\ c.signer = w.publicKey
                      /\ Returned(c.signer) = KeyOfStoredSecret[w.secretKey]

\* An index that is no index of the wallet list was refused, and a second
\* wallet was used to sign.
C10_Witness ==
  /\ \E r \in Reqs :
       /\ Arrived(r) /\ RightKey(r) /\ FullyPopulated(r) /\ LookedUp(r) /\ Known(r)
       /\ UserOf(r).wallets # <<>> /\ ~IndexInRange(UserOf(r))
       /\ pc[r] = "done"
  /\ \E r \in Reqs :
       /\ HasOp(r, "partialSign")
       /\ UserOf(r).activeWalletIndex = Num(1)

\* ------------------------------------------------------------------------
\* Vault specification: encryptSecret, then decryptSecret of its result
\* ------------------------------------------------------------------------
Repeat(unit, n) ==
  [i \in 1..(n * Len(unit)) |-> unit[((i - 1) % Len(unit)) + 1]]

\* Four-byte units: ASCII, e-acute twice, the euro sign and 'A', an emoji
\* (a surrogate pair), a lone surrogate and 'A'.
TextUnits == {<<65, 66, 67, 68>>, <<233, 233>>, <<8364, 65>>,
              <<55357, 56832>>, <<55296, 65>>}
\* ASCII bytes, and a unit with a byte that no UTF-8 sequence contains.
ByteUnits == {<<66, 67, 68, 69>>, <<255, 66, 67, 68>>}

Plaintexts ==
  {Str(Repeat(u, n)) : u \in TextUnits, n \in 0..MaxPlainUnits}
    \cup {Buf(Repeat(u, n)) : u \in ByteUnits, n \in 0..MaxPlainUnits}

\* Values crypto.randomBytes(16) may return.
IVs == {[i \in 1..BlockSize |-> 0],
        [i \in 1..BlockSize |-> (29 * i + 3) % 256],
        [i \in 1..BlockSize |-> 255]}

VaultInit ==
  /\ vpc = "plain"
  /\ plain \in Plaintexts
  /\ cipherText = <<>>
  /\ decrypted = Undefined
  /\ TradeIdle

Encrypt ==
  /\ vpc = "plain"
  /\ \E iv \in IVs : cipherText' = encryptSecret(plain, iv)
  /\ vpc' = "encrypted"
  /\ UNCHANGED <<plain, decrypted, tradeVars>>

Decrypt ==
  /\ vpc = "encrypted"
  /\ decrypted' = decryptSecret(cipherText)
  /\ vpc' = "decrypted"
  /\ UNCHANGED <<plain, cipherText, tradeVars>>

VaultNext == Encrypt \/ Decrypt

SpecVault == VaultInit /\ [][VaultNext]_vars

\* No unpaired surrogate in a string; valid UTF-8 in a buffer.
WellFormed(plainText) ==
  IF plainText.t = "buffer"
    THEN Utf8Encode(Utf8Decode(plainText.v)) = plainText.v
    ELSE Utf8Decode(Utf8Encode(plainText.v)) = plainText.v

\* The decrypted text equals the plaintext (a buffer compared by content).
SameText(text, plainText) ==
  IF plainText.t = "buffer" THEN Utf8Encode(text) = plainText.v
  ELSE text = plainText.v

\* C7 as stated: decrypt(encrypt(P)) == P for every plaintext P, whatever
\* initialization vector encrypt drew.
C7_RoundTripAll ==
  vpc = "decrypted" => decrypted.ok /\ SameText(decrypted.value, plain)

\* C7 amended: decrypt(encrypt(P)) == P for every well-formed plaintext P
\* (a string without unpaired surrogates, a byte string that is valid
\* UTF-8), whatever initialization vector encrypt drew.
C7_RoundTrip ==
  (vpc = "decrypted" /\ WellFormed(plain))
    => decrypted.ok /\ SameText(decrypted.value, plain)

\* A well-formed plaintext of more than one block went through both calls.
C7_Witness ==
  /\ vpc = "decrypted"
  /\ WellFormed(plain)
  /\ Len(InputBytes(plain)) > BlockSize
  /\ decrypted.ok
  /\ decrypted.value # <<>>

====
